---- MODULE Spec2Model ----
(***************************************************************************)
(* Model of the validated-field descriptor of the notebook cell            *)
(* _jupyter/descriptors/validator: PropertyWithValidator (__set_name__,    *)
(* __get__, __set__), its subclass IPv4 (validate) and the class Flow with *)
(* the two descriptors src_ipv4 and dst_ipv4.                              *)
(*                                                                         *)
(* A Python value is a record [type, chars, num]: a str carries its        *)
(* characters in chars, an int its magnitude in num, None carries nothing. *)
(* A character is a one-character string.                                  *)
(*                                                                         *)
(* written and rejected are history variables: written[<<obj, name>>] is   *)
(* the value of the latest assignment obj.name = value that returned       *)
(* normally (None before the first), rejected holds the fields with an     *)
(* assignment that raised.  ret is what the latest accessor call left      *)
(* behind, input the value of the latest assignment.                       *)
(***************************************************************************)
EXTENDS Naturals, Sequences, FiniteSets

VARIABLES property_name, dict, log, ret, calls, written, rejected, input

vars == <<property_name, dict, log, ret, calls, written, rejected, input>>

----------------------------------------------------------------------------
(* Bounds of the model *)

\* longest string of the exhaustively enumerated inputs
MaxLen == 7
\* most dot-separated groups of a generated input
MaxGroups == 5
\* most digits in one group of a generated input
MaxGroupLen == 4
\* number of accessor calls in one behaviour of Spec
MaxCalls == 3

----------------------------------------------------------------------------
(* Python values *)

Str(cs) == [type |-> "str", chars |-> cs, num |-> 0]
Int(n) == [type |-> "int", chars |-> <<>>, num |-> n]
None == [type |-> "NoneType", chars |-> <<>>, num |-> 0]

DigitChars == <<"0", "1", "2", "3", "4", "5", "6", "7", "8", "9">>

\* the decimal rendering of a natural number, as str(int) produces it
RECURSIVE IntToChars(_)
IntToChars(n) ==
    IF n < 10 THEN <<DigitChars[n + 1]>>
    ELSE Append(IntToChars(n \div 10), DigitChars[(n % 10) + 1])

\* "{}".format(value): str(value)
format(value) ==
    CASE value.type = "str" -> value.chars
      [] value.type = "int" -> IntToChars(value.num)
      [] OTHER -> <<"N", "o", "n", "e">>

\* the escaped body of repr(str): a line break becomes backslash, n
RECURSIVE Escape(_)
Escape(cs) ==
    IF cs = <<>> THEN <<>>
    ELSE (IF Head(cs) = "\n" THEN <<"\\", "n">> ELSE <<Head(cs)>>)
         \o Escape(Tail(cs))

\* "%r" % value: repr(value)
repr(value) ==
    IF value.type = "str" THEN <<"'">> \o Escape(value.chars) \o <<"'">>
    ELSE format(value)

----------------------------------------------------------------------------
(* IPv4.validate: the pattern ^(?:[0-9]{1,3}\.){3}[0-9]{1,3}$ *)

\* {1,3}: fewest and most digits of one group
MinDigits == 1
MaxDigits == 3
\* {3}: repetitions of the group that ends in a dot
DottedGroups == 3

\* [0-9]
IsDigit(c) == c \in {"0", "1", "2", "3", "4", "5", "6", "7", "8", "9"}

\* [0-9]{n} matches the n characters of s that start at position i
DigitsAt(s, i, n) ==
    /\ i + n - 1 <= Len(s)
    /\ \A k \in i..(i + n - 1) : IsDigit(s[k])

\* \. matches the character of s at position i
DotAt(s, i) == i <= Len(s) /\ s[i] = "."

\* the positions at which (?:[0-9]{1,3}\.){reps}, started at i, can end
RECURSIVE GroupEnds(_, _, _)
GroupEnds(s, i, reps) ==
    IF reps = 0 THEN {i}
    ELSE UNION { GroupEnds(s, i + n + 1, reps - 1) :
                 n \in { m \in MinDigits..MaxDigits :
                         DigitsAt(s, i, m) /\ DotAt(s, i + m) } }

\* $ without re.MULTILINE: at the end of the string, or just before a line
\* break that is the last character of the string
DollarAt(s, i) ==
    \/ i = Len(s) + 1
    \/ i = Len(s) /\ s[i] = "\n"

\* the pattern with [0-9]{1,2} for the last group
match_two_digits(s) ==
    \E p \in GroupEnds(s, 1, DottedGroups) :
        \E n \in MinDigits..(MaxDigits - 1) :
            DigitsAt(s, p, n) /\ DollarAt(s, p + n)

\* ipv4_pattern.match(value): ^ is position 1
ipv4_pattern_match(s) ==
    \E p \in GroupEnds(s, 1, DottedGroups) :
        \E n \in MinDigits..MaxDigits :
            DigitsAt(s, p, n) /\ DollarAt(s, p + n)

NoError == [raised |-> "none", message |-> <<>>]

ValidationException(value, text) ==
    [raised |-> "ValidationException", message |-> <<format(value), text>>]

MustBeString == " must be a string to be a valid ipv4 address"
NotValid == " is not a valid ipv4 address"

validate(value) ==
    IF value.type # "str" THEN ValidationException(value, MustBeString)
    ELSE IF ~ipv4_pattern_match(value.chars)
         THEN ValidationException(value, NotValid)
         ELSE NoError

----------------------------------------------------------------------------
(* class Flow and its records *)

\* the descriptors of class Flow
Names == {"src_ipv4", "dst_ipv4"}
\* the Flow records
Objs == {"flow1", "flow2"}

\* one private name for every descriptor
set_name_shared(owner, name) == <<"_", "value">>

\* self.property_name = "_" + name
__set_name__(owner, name) == <<"_", name>>

\* getattr(obj, attr): the attribute of the record, or AttributeError
getattr(obj, attr) ==
    IF attr \in DOMAIN dict[obj]
    THEN [raised |-> "none", value |-> dict[obj][attr]]
    ELSE [raised |-> "AttributeError", value |-> None]

\* an attribute that exists keeps its value
setattr_keep_first(obj, attr, value) ==
    [dict EXCEPT ![obj] =
        [a \in (DOMAIN @) \cup {attr} |->
            IF a \in DOMAIN @ THEN @[a] ELSE value]]

\* setattr(obj, attr, value): the records' attributes afterwards
setattr(obj, attr, value) ==
    [dict EXCEPT ![obj] =
        [a \in (DOMAIN @) \cup {attr} |-> IF a = attr THEN value ELSE @[a]]]

\* logging.info(fmt, value): the log afterwards
logging_info(fmt, value) == Append(log, <<fmt, repr(value)>>)

\* __get__ without the call of logging.info
get_silent(name, obj) ==
    LET got == getattr(obj, property_name[name]) IN
    [raised |-> got.raised, message |-> <<>>, value |-> got.value,
     dict |-> dict, log |-> log]

\* __get__ that removes the attribute it returns
get_consumes(name, obj) ==
    LET got == getattr(obj, property_name[name]) IN
    IF got.raised # "none"
    THEN [raised |-> got.raised, message |-> <<>>, value |-> None,
          dict |-> dict, log |-> log]
    ELSE [raised |-> "none", message |-> <<>>, value |-> got.value,
          dict |-> [dict EXCEPT ![obj] =
                       [a \in (DOMAIN @) \ {property_name[name]} |-> @[a]]],
          log |-> logging_info("__get__: ", got.value)]

\* __get__ with getattr(obj, self.property_name, None)
get_default(name, obj) ==
    LET got == getattr(obj, property_name[name]) IN
    [raised |-> "none", message |-> <<>>, value |-> got.value,
     dict |-> dict, log |-> logging_info("__get__: ", got.value)]

\* PropertyWithValidator.__get__ of the descriptor called name
__get__(name, obj) ==
    LET got == getattr(obj, property_name[name]) IN
    IF got.raised # "none"
    THEN [raised |-> got.raised, message |-> <<>>, value |-> None,
          dict |-> dict, log |-> log]
    ELSE [raised |-> "none", message |-> <<>>, value |-> got.value,
          dict |-> dict, log |-> logging_info("__get__: ", got.value)]

\* __set__ with the call of validate after the call of setattr
set_stores_first(name, obj, value) ==
    LET checked == validate(value) IN
    IF checked.raised # "none"
    THEN [raised |-> checked.raised, message |-> checked.message,
          value |-> None,
          dict |-> setattr(obj, property_name[name], value),
          log |-> logging_info("__set__: ", value)]
    ELSE [raised |-> "none", message |-> <<>>, value |-> None,
          dict |-> setattr(obj, property_name[name], value),
          log |-> logging_info("__set__: ", value)]

\* PropertyWithValidator.__set__ of the descriptor called name
__set__(name, obj, value) ==
    LET checked == validate(value) IN
    IF checked.raised # "none"
    THEN [raised |-> checked.raised, message |-> checked.message,
          value |-> None, dict |-> dict, log |-> log]
    ELSE [raised |-> "none", message |-> <<>>, value |-> None,
          dict |-> setattr(obj, property_name[name], value),
          log |-> logging_info("__set__: ", value)]

\* what one accessor call leaves behind
Outcome(op, obj, name, r) ==
    [op |-> op, obj |-> obj, name |-> name, raised |-> r.raised,
     message |-> r.message, value |-> r.value]

\* obj.name = value
SetAttr(obj, name, value) ==
    LET r == __set__(name, obj, value) IN
    /\ dict' = r.dict
    /\ log' = r.log
    /\ ret' = Outcome("set", obj, name, r)
    /\ input' = value
    /\ calls' = calls + 1
    /\ written' = IF r.raised = "none"
                  THEN [written EXCEPT ![<<obj, name>>] = value]
                  ELSE written
    /\ rejected' = IF r.raised = "none"
                   THEN rejected
                   ELSE rejected \cup {<<obj, name>>}
    /\ UNCHANGED property_name

\* obj.name
GetAttr(obj, name) ==
    LET r == __get__(name, obj) IN
    /\ dict' = r.dict
    /\ log' = r.log
    /\ ret' = Outcome("get", obj, name, r)
    /\ calls' = calls + 1
    /\ UNCHANGED <<property_name, written, rejected, input>>

----------------------------------------------------------------------------
(* The records under accessor calls *)

\* the values the accessor calls of Spec pass
Inputs ==
    { Str(<<"2", ".", "2", ".", "2", ".", "2">>),
      Str(<<"5", ".", "5", ".", "5", ".">>),
      Str(<<"1", ".", "1", ".", "1", ".", "1", "\n">>),
      Str(<<"9", "9", "9", ".", "9", "9", "9", ".", "9", "9", "9", ".",
            "9", "9", "9">>),
      Int(5555) }

NoCall ==
    [op |-> "none", obj |-> "-", name |-> "-", raised |-> "none",
     message |-> <<>>, value |-> None]

\* Flow is defined and its records are constructed; nothing is assigned
Start ==
    /\ property_name = [n \in Names |-> __set_name__("Flow", n)]
    /\ dict = [o \in Objs |-> <<>>]
    /\ log = <<>>
    /\ ret = NoCall
    /\ calls = 0
    /\ written = [f \in Objs \X Names |-> None]
    /\ rejected = {}

Init == Start /\ input = None

Write ==
    /\ calls < MaxCalls
    /\ \E obj \in Objs, name \in Names, value \in Inputs :
           SetAttr(obj, name, value)

Read ==
    /\ calls < MaxCalls
    /\ \E obj \in Objs, name \in Names : GetAttr(obj, name)

Next == Write \/ Read

Spec == Init /\ [][Next]_vars

----------------------------------------------------------------------------
(* One assignment of a value drawn from a large set of inputs *)

\* the characters of the exhaustively enumerated strings: a digit, the dot,
\* the line break, and the space for every character that is none of them
Alphabet == {"0", ".", "\n", " "}

\* every string over Alphabet of at most MaxLen characters
AllStrings == UNION { [1..n -> Alphabet] : n \in 0..MaxLen }

\* what may stand before the first or after the last group
Junk == {<<>>, <<"\n">>, <<" ">>}
JunkPairs == { p \in Junk \X Junk : p[1] = <<>> \/ p[2] = <<>> }

\* n times the digit d
Repeat(d, n) == [k \in 1..n |-> d]

\* the groups of the given lengths, of the digit d, joined by dots
RECURSIVE Join(_, _)
Join(lens, d) ==
    IF lens = <<>> THEN <<>>
    ELSE IF Len(lens) = 1 THEN Repeat(d, lens[1])
    ELSE Repeat(d, lens[1]) \o <<".">> \o Join(Tail(lens), d)

\* at most MaxGroups groups of at most MaxGroupLen digits 9, joined by dots,
\* with at most one other character before or after
Dotted ==
    { p[1] \o Join(lens, "9") \o p[2] :
        p \in JunkPairs,
        lens \in UNION { [1..k -> 0..MaxGroupLen] : k \in 0..MaxGroups } }

\* the values SpecValidate assigns
InputValues ==
    { Str(cs) : cs \in AllStrings \cup Dotted }
    \cup { Int(n) : n \in {0, 5, 5555} } \cup { None }

InitValidate == Start /\ input \in InputValues

\* flow.name = input, once
Assign ==
    /\ calls = 0
    /\ \E obj \in Objs, name \in Names : SetAttr(obj, name, input)

NextValidate == Assign

SpecValidate == InitValidate /\ [][NextValidate]_vars

----------------------------------------------------------------------------
(* The accepted shape, as the specification words it *)

\* the groups of cs that its dots separate
RECURSIVE Split(_)
Split(cs) ==
    LET dots == { i \in 1..Len(cs) : cs[i] = "." } IN
    IF dots = {} THEN <<cs>>
    ELSE LET i == CHOOSE d \in dots : \A e \in dots : d <= e IN
         <<SubSeq(cs, 1, i - 1)>> \o Split(SubSeq(cs, i + 1, Len(cs)))

\* exactly four dot-separated groups of 1 to 3 decimal digits
IsDottedQuad(cs) ==
    LET groups == Split(cs) IN
    /\ Len(groups) = 4
    /\ \A g \in 1..4 :
        /\ Len(groups[g]) \in 1..3
        /\ \A k \in 1..Len(groups[g]) : IsDigit(groups[g][k])

\* the private attribute of the field called name
SlotOf(name) == <<"_", name>>

\* the field name of obj holds a value
IsSet(obj, name) == SlotOf(name) \in DOMAIN dict[obj]

\* the latest step was an accessor call
Called == calls' = calls + 1

----------------------------------------------------------------------------
(* Claims *)

\* C1: every string of exactly four dot-separated groups of 1 to 3 decimal
\* digits is accepted, whatever the magnitude of its groups: the assignment
\* of it to a Flow field returns normally and stores it.
C1_ShapeAccepted ==
    (ret.op = "set" /\ input.type = "str" /\ IsDottedQuad(input.chars))
    => /\ ret.raised = "none"
       /\ IsSet(ret.obj, ret.name)
       /\ dict[ret.obj][SlotOf(ret.name)] = input

C1_Witness ==
    /\ ret.op = "set"
    /\ ret.raised = "none"
    /\ input = Str(<<"9", "9", "9", ".", "9", "9", "9", ".",
                     "9", "9", "9", ".", "9", "9", "9">>)

\* C2: every string that is not exactly four dot-separated groups of 1 to 3
\* decimal digits, with nothing before the first and nothing after the last
\* group, is rejected with ValidationException.
C2_OtherStringsRejected ==
    (ret.op = "set" /\ input.type = "str" /\ ~IsDottedQuad(input.chars))
    => ret.raised = "ValidationException"

\* C3: an assignment returns normally or raises ValidationException and
\* nothing else; a value that is not a string is rejected with the message
\* "<value> must be a string ...", and a string of the wrong shape is
\* rejected with the message "<value> is not a valid ipv4 address".
C3_OneErrorKindWithReason ==
    ret.op = "set"
    => /\ ret.raised \in {"none", "ValidationException"}
       /\ input.type # "str"
          => /\ ret.raised = "ValidationException"
             /\ ret.message = <<format(input), MustBeString>>
       /\ (input.type = "str" /\ ~IsDottedQuad(input.chars))
          => /\ ret.raised = "ValidationException"
             /\ ret.message = <<input.chars, NotValid>>

\* C4: a read that returns a value returns the value of the latest
\* assignment to that field of that record that returned normally.
C4_GetReturnsLatestSet ==
    (ret.op = "get" /\ ret.raised = "none")
    => ret.value = written[<<ret.obj, ret.name>>]

\* a second accepted value was assigned to the field and then read
C4_Witness ==
    /\ ret.op = "get"
    /\ ret.raised = "none"
    /\ calls = 3
    /\ Len(log) = 3
    /\ log[1][1] = "__set__: "
    /\ log[2][1] = "__set__: "
    /\ log[1][2] # log[2][2]
    /\ ret.value = input
    /\ \A o \in Objs : \A n \in Names :
           IsSet(o, n) <=> (o = ret.obj /\ n = ret.name)

\* C5: an assignment that raises stores nothing and logs nothing: every
\* field keeps its value, or stays unset.
C5_FailedSetStoresNothing ==
    [][(Called /\ ret'.op = "set" /\ ret'.raised # "none")
       => (dict' = dict /\ log' = log)]_vars

\* a rejected assignment to a field that holds a value
C5_Witness ==
    /\ ret.op = "set"
    /\ ret.raised = "ValidationException"
    /\ IsSet(ret.obj, ret.name)

\* C6: a read of a field without an assignment that returned normally
\* raises AttributeError, returns no value, logs nothing and leaves the
\* field unset.
C6_GetBeforeSetFails ==
    [][(Called /\ ret'.op = "get" /\ written[<<ret'.obj, ret'.name>>] = None)
       => /\ ret'.raised = "AttributeError"
          /\ ret'.value = None
          /\ log' = log
          /\ dict' = dict
          /\ SlotOf(ret'.name) \notin DOMAIN dict'[ret'.obj]]_vars

\* a failed read of a field whose only assignments were rejected
C6_Witness ==
    /\ ret.op = "get"
    /\ ret.raised = "AttributeError"
    /\ <<ret.obj, ret.name>> \in rejected

\* C7: a call that returns normally appends exactly one entry to the log,
\* "__set__: " with the assigned value or "__get__: " with the returned
\* value; a call that raises appends none, and a rejected assignment
\* stores nothing.
C7_OneLogEntryPerSuccess ==
    [][Called
       => /\ (ret'.op = "set" /\ ret'.raised = "none")
             => log' = Append(log, <<"__set__: ", repr(input')>>)
          /\ (ret'.op = "get" /\ ret'.raised = "none")
             => log' = Append(log, <<"__get__: ", repr(ret'.value)>>)
          /\ ret'.raised # "none" => (log' = log /\ dict' = dict)]_vars

\* an assignment, a read and a failed call, in this order
C7_Witness ==
    /\ calls = 3
    /\ Len(log) = 2
    /\ log[1][1] = "__set__: "
    /\ log[2][1] = "__get__: "
    /\ log[1][2] = log[2][2]
    /\ ret.raised # "none"

\* C8: every field that is set holds a string of four dot-separated groups
\* of 1 to 3 digits.
C8_StoredValuesHaveShape ==
    \A o \in Objs : \A a \in DOMAIN dict[o] :
        dict[o][a].type = "str" /\ IsDottedQuad(dict[o][a].chars)

\* C9: a field that is set stays set, and only an assignment that returns
\* normally changes a field.
C9_SetIsTheOnlyTransition ==
    [][/\ \A o \in Objs : \A n \in Names : IsSet(o, n) => IsSet(o, n)'
       /\ dict' # dict => (ret'.op = "set" /\ ret'.raised = "none")]_vars

\* a field that was set, read, and failed to be set again
C9_Witness ==
    /\ calls = 3
    /\ Len(log) = 2
    /\ log[2][1] = "__get__: "
    /\ ret.op = "set"
    /\ ret.raised = "ValidationException"
    /\ IsSet(ret.obj, ret.name)
    /\ rejected = {<<ret.obj, ret.name>>}

\* C10: storage is per record and per field: each field of each record
\* holds the value of the latest assignment to it that returned normally,
\* and is unset when there was none.
C10_StoragePerRecordAndField ==
    \A o \in Objs : \A n \in Names :
        IF written[<<o, n>>] = None
        THEN ~IsSet(o, n)
        ELSE IsSet(o, n) /\ dict[o][SlotOf(n)] = written[<<o, n>>]

\* both fields of one record hold different values, the other record none
C10_Witness ==
    /\ IsSet("flow1", "src_ipv4")
    /\ IsSet("flow1", "dst_ipv4")
    /\ dict["flow1"][SlotOf("src_ipv4")] # dict["flow1"][SlotOf("dst_ipv4")]
    /\ dict["flow2"] = <<>>

====
